---- MODULE Spec2Model ----
(***************************************************************************)
(* Model of the concurrent coupon ingestion pipeline of                    *)
(* internal/data/coupons_concurrent.go: three file readers, a buffered     *)
(* record channel, a pool of batching workers, the sharded bitmask table   *)
(* and the final sweep that fills CouponStoreConcurrent.coupons.           *)
(*                                                                         *)
(* A string is a sequence of byte values.  A file is the sequence of the   *)
(* tokens bufio.Scanner yields for it (fileLines), possibly cut short by a *)
(* scan error, after which the rest of the file (fileRest) is never read.  *)
(***************************************************************************)
EXTENDS Integers, Sequences, FiniteSets, TLC

(***************************************************************************)
(* Bounds of the model.                                                    *)
(***************************************************************************)
\* lines over the three files together (read or lying behind a scan error)
MaxRecords == 2
\* worker goroutines; the code takes runtime.NumCPU(), at least 1
NumWorkers == 2
\* capacity of dataChan; the code allocates 2048*len(filePaths)
ChanCap == 2
\* flushTriggerCount of workerSharded; 8192 in the code
FlushTrigger == 2
\* largest number of regular files the directory may hold
MaxFiles == 4
\* goroutines that call into the package
NumCallers == 2
\* calls each of them makes
MaxCalls == 2

(***************************************************************************)
(* Program constants.                                                      *)
(***************************************************************************)
numShards == 256
NumFiles == 3
MinCouponLen == 8
MaxCouponLen == 10
MinFileCount == 2
assumeCleanLines == TRUE

FileIdx == 0 .. (NumFiles - 1)
Workers == 1 .. NumWorkers
ShardIdx == 0 .. (numShards - 1)

(***************************************************************************)
(* The lines the files are made of.                                        *)
(***************************************************************************)
\* "VALIDAAA": 8 bytes
VALIDAAA == <<86, 65, 76, 73, 68, 65, 65, 65>>
\* " VALIDAAA ": 10 bytes, VALIDAAA between two blanks
PADDED == <<32>> \o VALIDAAA \o <<32>>
\* "SHORT7A": 7 bytes
SHORT7A == <<83, 72, 79, 82, 84, 55, 65>>
\* "LONGCODE11X": 11 bytes
LONGCODE11X == <<76, 79, 78, 71, 67, 79, 68, 69, 49, 49, 88>>
\* "\tSHORT7A": 8 bytes, 7 after trimming
PADSHORT == <<9>> \o SHORT7A
\* eight blanks
BLANKS == <<32, 32, 32, 32, 32, 32, 32, 32>>

Lines == {VALIDAAA, PADDED, SHORT7A, LONGCODE11X, PADSHORT, BLANKS}

(***************************************************************************)
(* Bit operations on uint32 masks and bytes.                               *)
(***************************************************************************)
RECURSIVE BitOr(_, _)
BitOr(a, b) ==
    IF a = 0 THEN b
    ELSE IF b = 0 THEN a
    ELSE (IF (a % 2 = 1) \/ (b % 2 = 1) THEN 1 ELSE 0) + 2 * BitOr(a \div 2, b \div 2)

RECURSIVE BitXor(_, _)
BitXor(a, b) ==
    IF a = 0 THEN b
    ELSE IF b = 0 THEN a
    ELSE (IF (a % 2) # (b % 2) THEN 1 ELSE 0) + 2 * BitXor(a \div 2, b \div 2)

\* bits.OnesCount32
RECURSIVE OnesCount32(_)
OnesCount32(m) == IF m = 0 THEN 0 ELSE (m % 2) + OnesCount32(m \div 2)

\* uint32(1 << fileIndex)
RECURSIVE ShiftLeft1(_)
ShiftLeft1(n) == IF n = 0 THEN 1 ELSE 2 * ShiftLeft1(n - 1)

fileBitmaskOf(fileIndex) == ShiftLeft1(fileIndex)

(***************************************************************************)
(* strings.TrimSpace on byte strings (the ASCII white space).              *)
(***************************************************************************)
IsSpace(b) == b \in {9, 10, 11, 12, 13, 32}

RECURSIVE TrimLeft(_)
TrimLeft(s) ==
    IF s = << >> THEN s
    ELSE IF IsSpace(Head(s)) THEN TrimLeft(Tail(s)) ELSE s

RECURSIVE TrimRight(_)
TrimRight(s) ==
    IF s = << >> THEN s
    ELSE IF IsSpace(s[Len(s)]) THEN TrimRight(SubSeq(s, 1, Len(s) - 1)) ELSE s

TrimSpace(s) == TrimRight(TrimLeft(s))

(***************************************************************************)
(* getShardIndex: 32-bit FNV-1a of the bytes, modulo numShards.  The hash  *)
(* is kept as two 16-bit halves <<hi, lo>>; the FNV prime is               *)
(* 16777619 = 2^24 + 403.                                                  *)
(***************************************************************************)
\* the offset basis 2166136261 = 33052 * 2^16 + 40389
FnvOffset == << 33052, 40389 >>

FnvMul(h) ==
    LET lo403 == h[2] * 403
        hi403 == h[1] * 403
        \* h * 2^24 mod 2^32 puts the low byte of h on top of the high half
        top   == (h[2] % 256) * 256
    IN  << (hi403 + (lo403 \div 65536) + top) % 65536, lo403 % 65536 >>

FnvStep(h, b) == FnvMul(<< h[1], BitXor(h[2], b) >>)

RECURSIVE FnvSum(_, _)
FnvSum(h, s) == IF s = << >> THEN h ELSE FnvSum(FnvStep(h, Head(s)), Tail(s))

getShardIndex(couponStr) ==
    LET h == FnvSum(FnvOffset, couponStr)
    IN  h[2] % numShards

\* the strings that can become keys, and their shard indices, computed once
Keys == Lines \cup {TrimSpace(l) : l \in Lines}

\* a routing by the length of the string
ShardIndexByLength == [couponStr \in Keys |-> Len(couponStr) % numShards]

ShardIndexOf == [couponStr \in Keys |-> getShardIndex(couponStr)]

(***************************************************************************)
(* Go maps from strings to uint32: a function on its set of keys; a        *)
(* missing key reads as 0.                                                 *)
(***************************************************************************)
EmptyMap == [k \in {} |-> 0]

MapGet(m, k) == IF k \in DOMAIN m THEN m[k] ELSE 0

MapPut(m, k, v) == [x \in (DOMAIN m) \cup {k} |-> IF x = k THEN v ELSE m[x]]

VARIABLES
    dirExists,      \* os.Stat(dir) succeeds
    numRegular,     \* number of regular files filepath.Glob and os.Stat find
    fileLines,      \* per file: the lines the scanner yielded so far
    fileRest,       \* per file: the lines lying behind a scan error; in SpecLive
                    \* the lines the scanner has not yielded yet
    fileFault,      \* per file: "none", "open", "gzip", "gzipEOF" or "scan"
    pc,             \* position of LoadAndFindValidCoupons
    errFinal,       \* its return value, "nil" when it returned no error
    coupons,        \* s.coupons, the set of keys of the map
    couponShards,   \* the package-level shard array
    dataChan,       \* buffered records in flight
    dataClosed,     \* close(dataChan) was executed
    readerErrChan,  \* buffered reader errors
    errClosed,      \* close(readerErrChan) was executed
    rpc,            \* per reader goroutine: "idle", "open", "scan" (a line was sent), "done"
    closerPc,       \* the closing goroutine: "idle", "wait", "closeErr", "done"
    wpc,            \* per worker: "idle", "recv", "flush", "merge", "done"
    localBatchData, \* per worker: its local batch
    itemsProcessed, \* per worker: itemsProcessedForCurrentBatch
    flushTodo,      \* per worker: keys of the batch the flush loop has not visited
    flushFinal,     \* per worker: the flush is the one after the receive loop
    flushKey,       \* per worker: the key whose shard it holds
    flushOld,       \* per worker: the shard entry it read under the lock
    merged          \* history: per key, the OR of all masks merged into the table

fsVars == << dirExists, numRegular, fileLines, fileRest, fileFault >>
mainVars == << pc, errFinal, coupons >>
chanVars == << dataChan, dataClosed, readerErrChan, errClosed >>
readerVars == << rpc, closerPc >>
workerVars == << wpc, localBatchData, itemsProcessed, flushTodo, flushFinal, flushKey, flushOld >>

(***************************************************************************)
(* The callers of the package: goroutines that call                        *)
(* CouponStoreConcurrentInstance, or build a store of their own with       *)
(* NewCouponStoreConcurrent and LoadAndFindValidCoupons, and query the     *)
(* instance they were given.  SpecCalls follows them; there a build is     *)
(* followed at the grain of its accesses to the shared shard table.        *)
(***************************************************************************)
VARIABLES
    once,           \* sync.Once: "fresh", "running" (f is executing), "done"
    instance,       \* the package variable: 0 for nil, else a store
    loadErr,        \* the package variable: "nil" or the error of the load
    loadDir,        \* the package variable: "" or the directory of the load
    loaded,         \* the package variable
    stores,         \* the stores NewCouponStoreConcurrent has allocated, in order
    cpc,            \* per caller: its position
    ckind,          \* per caller: "instance" or "direct", the call in progress
    cdir,           \* per caller: the directory argument of the call in progress
    cstore,         \* per caller: the store whose build it runs, 0 for none
    own,            \* per caller: the store it allocated for itself, 0 for none
    ctodo,          \* per caller: bits of its build not yet merged, per key
    lerr,           \* per caller: the value LoadAndFindValidCoupons returns
    ret,            \* per caller: what CouponStoreConcurrentInstance returned last
    rdir,           \* per caller: the directory it named in that call
    answer,         \* per caller: its last GetCoupon call and the result
    ncalls,         \* per caller: calls made so far
    instLoads       \* history: how often the function given to once.Do was run

onceVars == << once, instance, loadErr, loadDir, loaded >>
callerVars == << cpc, ckind, cdir, cstore, own, ctodo, lerr, ret, rdir, answer, ncalls >>
callVars == << onceVars, stores, callerVars, instLoads >>

Callers == 1 .. NumCallers

\* NewCouponStoreConcurrent: a store with an empty map.  Besides s.coupons a
\* store carries the history of its builds: the directory of the last one,
\* whether that build is "building", "ready" or "failed", and whether it ran
\* alone, with no other build between its first and its last step.
NewCouponStoreConcurrent ==
    [coupons |-> {}, dir |-> "", state |-> "new", alone |-> TRUE]

\* the package variables and the callers before the first call
CallsInit ==
    /\ once = "fresh"
    /\ instance = 0
    /\ loadErr = "nil"
    /\ loadDir = ""
    /\ loaded = FALSE
    /\ stores = << >>
    /\ cpc = [c \in Callers |-> "idle"]
    /\ ckind = [c \in Callers |-> "direct"]
    /\ cdir = [c \in Callers |-> ""]
    /\ cstore = [c \in Callers |-> 0]
    /\ own = [c \in Callers |-> 0]
    /\ ctodo = [c \in Callers |-> EmptyMap]
    /\ lerr = [c \in Callers |-> "nil"]
    /\ ret = [c \in Callers |-> [inst |-> 0, err |-> "nil"]]
    /\ rdir = [c \in Callers |-> ""]
    /\ answer = [c \in Callers |-> [store |-> 0, code |-> << >>, result |-> FALSE]]
    /\ ncalls = [c \in Callers |-> 0]
    /\ instLoads = 0

(***************************************************************************)
(* The code around the coupon store: the sort-and-merge variant of the     *)
(* load (findValidCoupons), which SpecMerge follows.                       *)
(***************************************************************************)
VARIABLES
    sortedFile,     \* findValidCoupons: per input, the lines of the sorted file
    openFails,      \* the input whose os.Open fails, NumFiles for none
    mpc,            \* position of findValidCoupons: "idle", "setup", "loop", "returned"
    scanned,        \* per input: the number of lines its scanner has yielded
    currentCodes,   \* per input: the current code
    hasMore,        \* per input: the file still has lines
    validCoupons,   \* the slice of valid codes
    mergeErr,       \* the error findValidCoupons returns, "nil" for none
    iterations      \* history: the iterations of the merge loop so far

mergeVars == << sortedFile, openFails, mpc, scanned, currentCodes, hasMore,
                validCoupons, mergeErr, iterations >>

\* findValidCoupons has not been called
MergeIdle ==
    /\ sortedFile = [i \in FileIdx |-> << >>]
    /\ openFails = NumFiles
    /\ mpc = "idle"
    /\ scanned = [i \in FileIdx |-> 0]
    /\ currentCodes = [i \in FileIdx |-> << >>]
    /\ hasMore = [i \in FileIdx |-> TRUE]
    /\ validCoupons = << >>
    /\ mergeErr = "nil"
    /\ iterations = 0

(***************************************************************************)
(* The Store (src/internal/data/store.go) and the order service on top of  *)
(* it (src/internal/services/order_service.go), which SpecStore and        *)
(* SpecOrder follow.                                                       *)
(***************************************************************************)
VARIABLES
    parentDone,     \* the context given to NewStore has been cancelled
    cancelCalled,   \* s.cancel has been called
    closeCalls,     \* history: the calls of Close so far
    closeRet,       \* what Close returned last, "none" before the first call
    scall,          \* per caller: its call of a Store method
    opc,            \* position of PlaceOrder: "idle", "items", "returned"
    oreq,           \* the request of PlaceOrder
    oproducts,      \* the slice products of PlaceOrder
    totalAmount,    \* the variable totalAmount of PlaceOrder, in cents
    oret            \* what PlaceOrder returned: the order, "nil" for none, and the error

storeVars == << parentDone, cancelCalled, closeCalls, closeRet, scall >>
orderVars == << opc, oreq, oproducts, totalAmount, oret >>

\* a caller that is in no call of the Store
NoCall == [op |-> "none", arg |-> << >>, phase |-> "idle", closedBefore |-> FALSE,
           result |-> "none"]

\* the Store right after NewStore, and no request
StoreIdle ==
    /\ parentDone = FALSE
    /\ cancelCalled = FALSE
    /\ closeCalls = 0
    /\ closeRet = "none"
    /\ scall = [c \in Callers |-> NoCall]
    /\ opc = "idle"
    /\ oreq = [Items |-> << >>, CouponCode |-> << >>]
    /\ oproducts = << >>
    /\ totalAmount = 0
    /\ oret = [order |-> "nil", err |-> "nil"]

appVars == << mergeVars, storeVars, orderVars >>

AppInit == MergeIdle /\ StoreIdle

pipeVars == << fsVars, mainVars, chanVars, readerVars, workerVars, merged >>
vars == << pipeVars, couponShards, callVars, appVars >>

(***************************************************************************)
(* The shard array.                                                        *)
(* The array is kept sparsely: it is a function on the indices of the      *)
(* shards that hold a key or whose mutex is held; every other index        *)
(* stands for a shard with an empty map and a free mutex.                  *)
(***************************************************************************)
\* the zero value of sync.Mutex; a held mutex carries the number of the worker
Unlocked == 0

ZeroShard == [mu |-> Unlocked, m |-> EmptyMap]

ShardAt(sds, i) == IF i \in DOMAIN sds THEN sds[i] ELSE ZeroShard

ShardSet(sds, i, shard) ==
    LET dom == IF shard = ZeroShard THEN (DOMAIN sds) \ {i} ELSE (DOMAIN sds) \cup {i}
    IN  [j \in dom |-> IF j = i THEN shard ELSE sds[j]]

\* initializeShards: every shard gets a fresh empty map
initializeShards(sds) ==
    [i \in {j \in DOMAIN sds : sds[j].mu # Unlocked} |-> [sds[i] EXCEPT !.m = EmptyMap]]

\* the merge without sds[shardIndex].mu.Lock()
ShardLockIgnored(sds, shardIndex) == TRUE

\* sds[shardIndex].mu.Lock() can return
ShardLockFree(sds, shardIndex) == ShardAt(sds, shardIndex).mu = Unlocked

\* sds[shardIndex].m[couponStr] |= batchAggregatedBitmask, from the value read
MergeMask(old, batchAggregatedBitmask) == BitOr(old, batchAggregatedBitmask)

\* the mask the table holds for a key
TableMask(sds, couponStr) == MapGet(ShardAt(sds, ShardIndexOf[couponStr]).m, couponStr)

\* all keys of the table
TableKeys(sds) == UNION {DOMAIN sds[i].m : i \in DOMAIN sds}

(***************************************************************************)
(* Initial state: a store from NewCouponStoreConcurrent, the zero-valued   *)
(* shard array, and a directory that exists or not and holds some number   *)
(* of regular files.                                                       *)
(***************************************************************************)
Init ==
    /\ dirExists \in BOOLEAN
    /\ numRegular \in 0 .. MaxFiles
    /\ (~dirExists => numRegular = 0)
    /\ fileLines = [i \in FileIdx |-> << >>]
    /\ fileRest = [i \in FileIdx |-> << >>]
    /\ fileFault = [i \in FileIdx |-> "none"]
    /\ pc = "begin"
    /\ errFinal = "nil"
    /\ coupons = {}
    /\ couponShards = [i \in {} |-> ZeroShard]
    /\ dataChan = << >>
    /\ dataClosed = FALSE
    /\ readerErrChan = << >>
    /\ errClosed = FALSE
    /\ rpc = [i \in FileIdx |-> "idle"]
    /\ closerPc = "idle"
    /\ wpc = [w \in Workers |-> "idle"]
    /\ localBatchData = [w \in Workers |-> EmptyMap]
    /\ itemsProcessed = [w \in Workers |-> 0]
    /\ flushTodo = [w \in Workers |-> {}]
    /\ flushFinal = [w \in Workers |-> FALSE]
    /\ flushKey = [w \in Workers |-> << >>]
    /\ flushOld = [w \in Workers |-> 0]
    /\ merged = EmptyMap
    /\ CallsInit
    /\ AppInit

(***************************************************************************)
(* LoadAndFindValidCoupons, the calling goroutine.                         *)
(***************************************************************************)
\* the check written as len(filePaths) < 3
FileCountAtLeast(n) == n >= NumFiles

\* len(filePaths) != 3 is false
FileCountOK(n) == n = NumFiles

\* lines 166-195: reset of s.coupons, initializeShards, the directory checks
Begin ==
    /\ pc = "begin"
    /\ coupons' = {}
    /\ couponShards' = initializeShards(couponShards)
    /\ IF ~dirExists
         THEN pc' = "done" /\ errFinal' = "DirectoryMissing"
         ELSE IF ~FileCountOK(numRegular)
                THEN pc' = "done" /\ errFinal' = "WrongFileCount"
                ELSE pc' = "start" /\ errFinal' = errFinal
    /\ UNCHANGED << fsVars, chanVars, readerVars, workerVars, merged >>
    /\ UNCHANGED << callVars, appVars >>

\* lines 198-259: the channels, one reader goroutine per file, the closing
\* goroutine and numWorkers worker goroutines are started; none of these
\* statements blocks or reads shared state
StartPipeline ==
    /\ pc = "start"
    /\ rpc' = [i \in FileIdx |-> "open"]
    /\ closerPc' = "wait"
    /\ wpc' = [w \in Workers |-> "recv"]
    /\ pc' = "waitWorkers"
    /\ UNCHANGED << fsVars, errFinal, coupons, chanVars, localBatchData, itemsProcessed,
                    flushTodo, flushFinal, flushKey, flushOld, couponShards, merged >>
    /\ UNCHANGED << callVars, appVars >>

\* the sweep without workerWg.Wait()
WorkersNotAwaited(p) == TRUE

\* workerWg.Wait() can return
WorkersAllDone(p) == \A w \in Workers : p[w] = "done"

\* line 261
WaitWorkers ==
    /\ pc = "waitWorkers"
    /\ WorkersAllDone(wpc)
    /\ pc' = "checkErrors"
    /\ UNCHANGED << fsVars, errFinal, coupons, chanVars, readerVars, workerVars,
                    couponShards, merged >>
    /\ UNCHANGED << callVars, appVars >>

\* lines 265-270: range over readerErrChan; the first error received is returned
CheckErrors ==
    /\ pc = "checkErrors"
    /\ IF readerErrChan # << >>
         THEN /\ errFinal' = "ReaderCritical"
              /\ readerErrChan' = Tail(readerErrChan)
              /\ pc' = "done"
         ELSE /\ errClosed
              /\ pc' = "sweep"
              /\ UNCHANGED << errFinal, readerErrChan >>
    /\ UNCHANGED << fsVars, coupons, dataChan, dataClosed, errClosed, readerVars,
                    workerVars, couponShards, merged >>
    /\ UNCHANGED << callVars, appVars >>

\* the keys the sweep copies: bits.OnesCount32(mask) >= 2
SweepKeys(sds) ==
    {c \in TableKeys(sds) : OnesCount32(TableMask(sds, c)) >= MinFileCount}

\* lines 272-305: every shard is locked in turn and its entries are examined
Sweep ==
    /\ pc = "sweep"
    /\ \A i \in DOMAIN couponShards : ShardLockFree(couponShards, i)
    /\ coupons' = coupons \cup SweepKeys(couponShards)
    /\ errFinal' = "nil"
    /\ pc' = "done"
    /\ UNCHANGED << fsVars, chanVars, readerVars, workerVars, couponShards, merged >>
    /\ UNCHANGED << callVars, appVars >>

\* GetCoupon: the length check, then the lookup
GetCouponOf(s_coupons, code) ==
    IF Len(code) < MinCouponLen \/ Len(code) > MaxCouponLen
      THEN FALSE
      ELSE code \in s_coupons

\* GetCoupon on the store of the build Spec follows
GetCoupon(code) == GetCouponOf(coupons, code)

(***************************************************************************)
(* The file reader goroutines (lines 206-240).                             *)
(***************************************************************************)
\* every line of a file, read or not
AllLines(i) == fileLines[i] \o fileRest[i]

\* the number of lines in the files 0 .. n
RECURSIVE SumLen(_, _)
SumLen(f, n) == IF n < 0 THEN 0 ELSE Len(f[n]) + SumLen(f, n - 1)

TotalLines == SumLen(fileLines, NumFiles - 1) + SumLen(fileRest, NumFiles - 1)

\* the error only printed, as for a scan error
ReportDropped(ch, errMsg) == ch

\* readerErrChan <- errMsg
ReportCritical(ch, errMsg) == Append(ch, errMsg)

\* the ways a reader fails before its scan loop: os.Open fails ("open"); the
\* name ends in .gz and gzip.NewReader rejects the header ("gzip"); the name
\* ends in .gz and the file has no bytes, gzip.NewReader meets the end of the
\* file where the header should be and returns io.EOF ("gzipEOF")
OpenFaults == {"open", "gzip", "gzipEOF"}

\* lines 210-226: the error goes to readerErrChan and the goroutine returns
ReaderOpenFails(i) ==
    /\ rpc[i] = "open"
    /\ \E kind \in OpenFaults :
          /\ fileFault' = [fileFault EXCEPT ![i] = kind]
          /\ readerErrChan' = ReportCritical(readerErrChan, [reader |-> i + 1, kind |-> kind])
    /\ Len(readerErrChan) < NumFiles
    /\ rpc' = [rpc EXCEPT ![i] = "done"]
    /\ UNCHANGED << dirExists, numRegular, fileLines, fileRest, mainVars, dataChan,
                    dataClosed, errClosed, closerPc, workerVars, couponShards, merged >>
    /\ UNCHANGED << callVars, appVars >>

\* the reader has opened its file (and the gzip header, if any, was accepted)
\* and is in the scan loop; the open and the first Scan touch nothing shared,
\* so they are one step with what the first Scan leads to
Scanning(i) == rpc[i] \in {"open", "scan"}

\* scanner.Scan() yields a line and the record is sent; the send blocks while
\* the channel's buffer is full
ReaderSends(i) ==
    /\ Scanning(i)
    /\ rpc' = [rpc EXCEPT ![i] = "scan"]
    /\ TotalLines < MaxRecords
    /\ Len(dataChan) < ChanCap
    /\ \E line \in Lines :
          /\ fileLines' = [fileLines EXCEPT ![i] = Append(@, line)]
          /\ dataChan' = Append(dataChan,
                                [couponString |-> line, fileBitmask |-> fileBitmaskOf(i)])
    /\ UNCHANGED << dirExists, numRegular, fileRest, fileFault, mainVars, dataClosed,
                    readerErrChan, errClosed, closerPc, workerVars, couponShards, merged >>
    /\ UNCHANGED << callVars, appVars >>

\* scanner.Scan() returns false at the end of the file; scanner.Err() is nil
ReaderEOF(i) ==
    /\ Scanning(i)
    /\ rpc' = [rpc EXCEPT ![i] = "done"]
    /\ UNCHANGED << fsVars, mainVars, chanVars, closerPc, workerVars, couponShards, merged >>
    /\ UNCHANGED << callVars, appVars >>

\* what the goroutine does with a non-nil scanner.Err(): lines 236-238 print it
ScanErrReport(ch, errMsg) == ch

\* scanner.Scan() returns false on a read or decompression error or on a line
\* longer than the scanner's buffer; the lines behind it stay unread
ReaderScanFails(i) ==
    /\ Scanning(i)
    /\ \E rest \in {<< >>} \cup {<< l >> : l \in Lines} :
          /\ TotalLines + Len(rest) <= MaxRecords
          /\ fileRest' = [fileRest EXCEPT ![i] = rest]
    /\ fileFault' = [fileFault EXCEPT ![i] = "scan"]
    /\ readerErrChan' = ScanErrReport(readerErrChan, [reader |-> i + 1, kind |-> "scan"])
    /\ rpc' = [rpc EXCEPT ![i] = "done"]
    /\ UNCHANGED << dirExists, numRegular, fileLines, mainVars, dataChan, dataClosed,
                    errClosed, closerPc, workerVars, couponShards, merged >>
    /\ UNCHANGED << callVars, appVars >>

\* close(dataChan) without readerWg.Wait()
ReadersNotAwaited(p) == TRUE

\* a closing goroutine that waits for the workers
CloserAwaitsWorkers(p) == \A w \in Workers : wpc[w] = "done"

\* readerWg.Wait() can return
ReadersAllDone(p) == \A i \in FileIdx : p[i] = "done"

\* lines 244-245: readerWg.Wait(); close(dataChan)
CloseDataChan ==
    /\ closerPc = "wait"
    /\ ReadersAllDone(rpc)
    /\ dataClosed' = TRUE
    /\ closerPc' = "closeErr"
    /\ UNCHANGED << fsVars, mainVars, dataChan, readerErrChan, errClosed, rpc,
                    workerVars, couponShards, merged >>
    /\ UNCHANGED << callVars, appVars >>

\* line 246: close(readerErrChan)
CloseErrChan ==
    /\ closerPc = "closeErr"
    /\ errClosed' = TRUE
    /\ closerPc' = "done"
    /\ UNCHANGED << fsVars, mainVars, dataChan, dataClosed, readerErrChan, rpc,
                    workerVars, couponShards, merged >>
    /\ UNCHANGED << callVars, appVars >>

(***************************************************************************)
(* workerSharded and flushBatchSharded (lines 89-145).                     *)
(***************************************************************************)
\* lines 122-125: the key a record is aggregated under
CouponKey(couponString, clean) == IF ~clean THEN TrimSpace(couponString) ELSE couponString

\* line 128
LengthOK(couponStr) == Len(couponStr) >= MinCouponLen /\ Len(couponStr) <= MaxCouponLen

\* localBatchData[couponStr] = data.fileBitmask
BatchAssign(old, fileBitmask) == fileBitmask

\* localBatchData[couponStr] |= data.fileBitmask
BatchMerge(old, fileBitmask) == BitOr(old, fileBitmask)

\* lines 122-130: the batch after one record
BatchAfter(batch, data) ==
    LET couponStr == CouponKey(data.couponString, assumeCleanLines)
    IN  IF LengthOK(couponStr)
          THEN MapPut(batch, couponStr, BatchMerge(MapGet(batch, couponStr), data.fileBitmask))
          ELSE batch

\* lines 121-137: one iteration of the receive loop
WorkerReceives(w) ==
    /\ wpc[w] = "recv"
    /\ dataChan # << >>
    /\ dataChan' = Tail(dataChan)
    /\ LET batch == BatchAfter(localBatchData[w], Head(dataChan))
           items == itemsProcessed[w] + 1
       IN  IF items >= FlushTrigger
             THEN IF DOMAIN batch = {}
                    \* flushBatchSharded returns at once; fresh batch, counter 0
                    THEN /\ localBatchData' = [localBatchData EXCEPT ![w] = EmptyMap]
                         /\ itemsProcessed' = [itemsProcessed EXCEPT ![w] = 0]
                         /\ UNCHANGED << wpc, flushTodo >>
                    ELSE /\ localBatchData' = [localBatchData EXCEPT ![w] = batch]
                         /\ itemsProcessed' = [itemsProcessed EXCEPT ![w] = items]
                         /\ flushTodo' = [flushTodo EXCEPT ![w] = DOMAIN batch]
                         /\ wpc' = [wpc EXCEPT ![w] = "flush"]
             ELSE /\ localBatchData' = [localBatchData EXCEPT ![w] = batch]
                  /\ itemsProcessed' = [itemsProcessed EXCEPT ![w] = items]
                  /\ UNCHANGED << wpc, flushTodo >>
    /\ UNCHANGED << fsVars, mainVars, dataClosed, readerErrChan, errClosed, readerVars,
                    flushFinal, flushKey, flushOld, couponShards, merged >>
    /\ UNCHANGED << callVars, appVars >>

\* lines 138-145: the channel is closed and drained; the last batch is flushed
WorkerChannelClosed(w) ==
    /\ wpc[w] = "recv"
    /\ dataChan = << >>
    /\ dataClosed
    /\ IF DOMAIN localBatchData[w] # {}
         THEN /\ flushTodo' = [flushTodo EXCEPT ![w] = DOMAIN localBatchData[w]]
              /\ flushFinal' = [flushFinal EXCEPT ![w] = TRUE]
              /\ wpc' = [wpc EXCEPT ![w] = "flush"]
         ELSE /\ wpc' = [wpc EXCEPT ![w] = "done"]
              /\ UNCHANGED << flushTodo, flushFinal >>
    /\ UNCHANGED << fsVars, mainVars, chanVars, readerVars, localBatchData,
                    itemsProcessed, flushKey, flushOld, couponShards, merged >>
    /\ UNCHANGED << callVars, appVars >>

\* a worker that goes on with the batch and the counter it has flushed
AfterFlushKeepsBatch(w, todo) ==
    /\ wpc' = [wpc EXCEPT ![w] = IF todo # {} THEN "flush"
                                 ELSE IF flushFinal[w] THEN "done" ELSE "recv"]
    /\ UNCHANGED << localBatchData, itemsProcessed >>

\* where the worker goes when the flush loop has visited every key
AfterFlush(w, todo) ==
    IF todo # {}
      THEN /\ wpc' = [wpc EXCEPT ![w] = "flush"]
           /\ UNCHANGED << localBatchData, itemsProcessed >>
      ELSE IF flushFinal[w]
             THEN /\ wpc' = [wpc EXCEPT ![w] = "done"]
                  /\ UNCHANGED << localBatchData, itemsProcessed >>
             ELSE /\ wpc' = [wpc EXCEPT ![w] = "recv"]
                  /\ localBatchData' = [localBatchData EXCEPT ![w] = EmptyMap]
                  /\ itemsProcessed' = [itemsProcessed EXCEPT ![w] = 0]

\* lines 96-103: the loop takes a key (Go's map order is arbitrary), locks its
\* shard and reads the entry
FlushLocks(w) ==
    /\ wpc[w] = "flush"
    /\ \E couponStr \in flushTodo[w] :
          LET shardIndex == ShardIndexOf[couponStr] IN
          /\ localBatchData[w][couponStr] # 0
          /\ ShardLockFree(couponShards, shardIndex)
          /\ couponShards' = ShardSet(couponShards, shardIndex,
                                       [ShardAt(couponShards, shardIndex) EXCEPT !.mu = w])
          /\ flushKey' = [flushKey EXCEPT ![w] = couponStr]
          /\ flushOld' = [flushOld EXCEPT ![w] =
                             MapGet(ShardAt(couponShards, shardIndex).m, couponStr)]
    /\ wpc' = [wpc EXCEPT ![w] = "merge"]
    /\ UNCHANGED << fsVars, mainVars, chanVars, readerVars, localBatchData,
                    itemsProcessed, flushTodo, flushFinal, merged >>
    /\ UNCHANGED << callVars, appVars >>

\* lines 103-104: the entry is written and the shard unlocked
FlushMerges(w) ==
    /\ wpc[w] = "merge"
    /\ LET couponStr == flushKey[w]
           shardIndex == ShardIndexOf[couponStr]
           mask == localBatchData[w][couponStr]
       IN  /\ couponShards' =
                 ShardSet(couponShards, shardIndex,
                          [mu |-> Unlocked,
                           m  |-> MapPut(ShardAt(couponShards, shardIndex).m, couponStr,
                                         MergeMask(flushOld[w], mask))])
           /\ merged' = MapPut(merged, couponStr, BitOr(MapGet(merged, couponStr), mask))
           /\ flushTodo' = [flushTodo EXCEPT ![w] = @ \ {couponStr}]
           /\ AfterFlush(w, flushTodo[w] \ {couponStr})
    /\ UNCHANGED << fsVars, mainVars, chanVars, readerVars, flushFinal, flushKey, flushOld >>
    /\ UNCHANGED << callVars, appVars >>

(***************************************************************************)
(* The specification.                                                      *)
(***************************************************************************)
Next ==
    \/ Begin
    \/ StartPipeline
    \/ WaitWorkers
    \/ CheckErrors
    \/ Sweep
    \/ \E i \in FileIdx : ReaderOpenFails(i)
    \/ \E i \in FileIdx : ReaderSends(i)
    \/ \E i \in FileIdx : ReaderEOF(i)
    \/ \E i \in FileIdx : ReaderScanFails(i)
    \/ CloseDataChan
    \/ CloseErrChan
    \/ \E w \in Workers : WorkerReceives(w)
    \/ \E w \in Workers : WorkerChannelClosed(w)
    \/ \E w \in Workers : FlushLocks(w)
    \/ \E w \in Workers : FlushMerges(w)

Spec == Init /\ [][Next]_vars

(***************************************************************************)
(* The directories the callers name.  A directory exists or not and holds  *)
(* some regular files; a file is the lines its scanner yields and the      *)
(* fault of its reader, if any.                                            *)
(***************************************************************************)
File(lines, fault) == [lines |-> lines, fault |-> fault]

\* VALIDAAA in the first two files
DirA ==
    [exists |-> TRUE, regular |-> 3,
     files |-> << File(<< VALIDAAA >>, "none"), File(<< VALIDAAA >>, "none"),
                  File(<< >>, "none") >>]

\* VALIDAAA in the third file only
DirB ==
    [exists |-> TRUE, regular |-> 3,
     files |-> << File(<< >>, "none"), File(<< >>, "none"),
                  File(<< VALIDAAA >>, "none") >>]

\* VALIDAAA in two files, once between blanks, and a line that is too long
DirC ==
    [exists |-> TRUE, regular |-> 3,
     files |-> << File(<< PADDED >>, "none"), File(<< VALIDAAA >>, "none"),
                  File(<< LONGCODE11X >>, "none") >>]

\* VALIDAAA in two files, the third file cannot be opened
DirE ==
    [exists |-> TRUE, regular |-> 3,
     files |-> << File(<< VALIDAAA >>, "none"), File(<< VALIDAAA >>, "none"),
                  File(<< >>, "open") >>]

\* a directory with two regular files
DirW ==
    [exists |-> TRUE, regular |-> 2,
     files |-> << File(<< VALIDAAA >>, "none"), File(<< VALIDAAA >>, "none"),
                  File(<< >>, "none") >>]

\* a path that does not exist
DirM ==
    [exists |-> FALSE, regular |-> 0,
     files |-> << File(<< >>, "none"), File(<< >>, "none"), File(<< >>, "none") >>]

DirNames == {"A", "B", "C", "E", "W", "M"}

Directory ==
    [name \in DirNames |->
        CASE name = "A" -> DirA
          [] name = "B" -> DirB
          [] name = "C" -> DirC
          [] name = "E" -> DirE
          [] name = "W" -> DirW
          [] name = "M" -> DirM]

\* a reader of the directory sends on readerErrChan (lines 211-226)
DirCritical(d) == \E k \in 1 .. NumFiles : d.files[k].fault \in OpenFaults

\* lines 121-130 over the records of one file: what the workers' batches hold
RECURSIVE BatchOfLines(_, _, _)
BatchOfLines(batch, lines, fileBitmask) ==
    IF lines = << >>
      THEN batch
      ELSE BatchOfLines(BatchAfter(batch, [couponString |-> Head(lines),
                                           fileBitmask |-> fileBitmask]),
                        Tail(lines), fileBitmask)

\* the same over the files of a directory, from file index i on; a file whose
\* reader returned at line 215 or 225 sends no record
RECURSIVE BatchOfFiles(_, _, _)
BatchOfFiles(batch, files, i) ==
    IF i >= NumFiles
      THEN batch
      ELSE BatchOfFiles(IF files[i + 1].fault \in OpenFaults
                          THEN batch
                          ELSE BatchOfLines(batch, files[i + 1].lines, fileBitmaskOf(i)),
                        files, i + 1)

\* the masks a flush can carry for a key whose records have the bits of mask:
\* the OR of the records that went through one worker's batch
SubMasks(mask) == {m \in 1 .. mask : BitOr(m, mask) = mask}

(***************************************************************************)
(* The callers.  A caller that is idle calls CouponStoreConcurrentInstance *)
(* or LoadAndFindValidCoupons on a store of its own, or queries the        *)
(* instance it was given.                                                  *)
(***************************************************************************)
\* the callers, other than c, that are inside LoadAndFindValidCoupons
Building(c) == {x \in Callers \ {c} : cpc[x] \in {"merge", "sweep"}}

\* CouponStoreConcurrentInstance(dir) is called
CallInstance(c) ==
    /\ cpc[c] = "idle"
    /\ ncalls[c] < MaxCalls
    /\ \E dir \in DirNames : cdir' = [cdir EXCEPT ![c] = dir]
    /\ ckind' = [ckind EXCEPT ![c] = "instance"]
    /\ cpc' = [cpc EXCEPT ![c] = "once"]
    /\ ncalls' = [ncalls EXCEPT ![c] = @ + 1]
    /\ UNCHANGED << appVars, pipeVars, couponShards, onceVars, stores, cstore, own, ctodo, lerr,
                    ret, rdir, answer, instLoads >>

\* once.Do runs f although f is running or has run
OnceUnguarded(o) == o # "done"

\* once.Do runs f: no call of Do has started yet
OnceClaims(o) == o = "fresh"

\* once.Do returns without waiting for f
OnceNoWait(o) == TRUE

\* once.Do returns without running f: f has returned
OnceDone(o) == o = "done"

\* lines 42-45: the first caller enters f, allocates the instance, records the
\* directory and calls LoadAndFindValidCoupons
OnceRuns(c) ==
    /\ cpc[c] = "once"
    /\ OnceClaims(once)
    /\ once' = "running"
    /\ stores' = Append(stores, NewCouponStoreConcurrent)
    /\ instance' = Len(stores) + 1
    /\ loadDir' = cdir[c]
    /\ cstore' = [cstore EXCEPT ![c] = Len(stores) + 1]
    /\ cpc' = [cpc EXCEPT ![c] = "begin"]
    /\ instLoads' = instLoads + 1
    /\ UNCHANGED << appVars, pipeVars, couponShards, loadErr, loaded, ckind, cdir, own, ctodo,
                    lerr, ret, rdir, answer, ncalls >>

\* line 42 for every other caller: Do blocks while f runs, then returns
OncePasses(c) ==
    /\ cpc[c] = "once"
    /\ ~OnceClaims(once)
    /\ OnceDone(once)
    /\ cpc' = [cpc EXCEPT ![c] = "ret"]
    /\ UNCHANGED << appVars, pipeVars, couponShards, onceVars, stores, ckind, cdir, cstore, own,
                    ctodo, lerr, ret, rdir, answer, ncalls, instLoads >>

\* a caller builds a store of its own: NewCouponStoreConcurrent() the first
\* time, then LoadAndFindValidCoupons(dir) on it
CallDirect(c) ==
    /\ cpc[c] = "idle"
    /\ ncalls[c] < MaxCalls
    /\ \E dir \in DirNames : cdir' = [cdir EXCEPT ![c] = dir]
    /\ ckind' = [ckind EXCEPT ![c] = "direct"]
    /\ IF own[c] = 0
         THEN /\ stores' = Append(stores, NewCouponStoreConcurrent)
              /\ own' = [own EXCEPT ![c] = Len(stores) + 1]
              /\ cstore' = [cstore EXCEPT ![c] = Len(stores) + 1]
         ELSE /\ cstore' = [cstore EXCEPT ![c] = own[c]]
              /\ UNCHANGED << stores, own >>
    /\ cpc' = [cpc EXCEPT ![c] = "begin"]
    /\ ncalls' = [ncalls EXCEPT ![c] = @ + 1]
    /\ UNCHANGED << appVars, pipeVars, couponShards, onceVars, ctodo, lerr, ret, rdir, answer, instLoads >>

(***************************************************************************)
(* LoadAndFindValidCoupons as a caller runs it.  The readers and workers   *)
(* of the build are followed by what they do to the shard table: every     *)
(* flush of a batch entry is one merge under the shard's mutex.            *)
(***************************************************************************)
\* s.coupons left as it was
KeepCoupons(old) == old

\* lines 166-168: s.coupons = make(map[string]struct{})
ResetCoupons(old) == {}

\* lines 166-195: the reset, initializeShards and the directory checks; after
\* them the records of the directory are on their way to the workers
LoadBegin(c) ==
    LET s == cstore[c]
        d == Directory[cdir[c]]
        failed == ~d.exists \/ ~FileCountOK(d.regular)
        others == {cstore[x] : x \in Building(c)}
    IN  /\ cpc[c] = "begin"
        /\ stores' = [t \in 1 .. Len(stores) |->
                         IF t = s
                           THEN [coupons |-> ResetCoupons(stores[s].coupons),
                                 dir |-> cdir[c],
                                 state |-> IF failed THEN "failed" ELSE "building",
                                 alone |-> others = {}]
                           ELSE IF t \in others
                                  THEN [stores[t] EXCEPT !.alone = FALSE]
                                  ELSE stores[t]]
        /\ couponShards' = initializeShards(couponShards)
        /\ IF ~d.exists
             THEN /\ lerr' = [lerr EXCEPT ![c] = "DirectoryMissing"]
                  /\ cpc' = [cpc EXCEPT ![c] = "loaded"]
                  /\ UNCHANGED ctodo
             ELSE IF ~FileCountOK(d.regular)
                    THEN /\ lerr' = [lerr EXCEPT ![c] = "WrongFileCount"]
                         /\ cpc' = [cpc EXCEPT ![c] = "loaded"]
                         /\ UNCHANGED ctodo
                    ELSE /\ ctodo' = [ctodo EXCEPT ![c] = BatchOfFiles(EmptyMap, d.files, 0)]
                         /\ cpc' = [cpc EXCEPT ![c] = "merge"]
                         /\ UNCHANGED lerr
        /\ UNCHANGED << appVars, pipeVars, onceVars, ckind, cdir, cstore, own, ret, rdir, answer,
                        ncalls, instLoads >>

\* lines 100-104: a worker of the build flushes a batch entry
LoadMerges(c) ==
    /\ cpc[c] = "merge"
    /\ \E couponStr \in DOMAIN ctodo[c] : \E mask \in SubMasks(ctodo[c][couponStr]) :
          LET shardIndex == ShardIndexOf[couponStr]
              shard == ShardAt(couponShards, shardIndex)
              left == ctodo[c][couponStr] - mask
          IN  /\ ShardLockFree(couponShards, shardIndex)
              /\ couponShards' =
                    ShardSet(couponShards, shardIndex,
                             [shard EXCEPT !.m = MapPut(shard.m, couponStr,
                                                        MergeMask(MapGet(shard.m, couponStr), mask))])
              /\ ctodo' = [ctodo EXCEPT ![c] =
                              IF left = 0
                                THEN [k \in (DOMAIN @) \ {couponStr} |-> @[k]]
                                ELSE [@ EXCEPT ![couponStr] = left]]
    /\ UNCHANGED << appVars, pipeVars, onceVars, stores, cpc, ckind, cdir, cstore, own, lerr, ret, rdir,
                    answer, ncalls, instLoads >>

\* lines 261-270: every worker has flushed and exited; a reader's error on
\* readerErrChan is returned
LoadChecks(c) ==
    /\ cpc[c] = "merge"
    /\ DOMAIN ctodo[c] = {}
    /\ IF DirCritical(Directory[cdir[c]])
         THEN /\ lerr' = [lerr EXCEPT ![c] = "ReaderCritical"]
              /\ stores' = [stores EXCEPT ![cstore[c]].state = "failed"]
              /\ cpc' = [cpc EXCEPT ![c] = "loaded"]
         ELSE /\ cpc' = [cpc EXCEPT ![c] = "sweep"]
              /\ UNCHANGED << lerr, stores >>
    /\ UNCHANGED << appVars, pipeVars, couponShards, onceVars, ckind, cdir, cstore, own, ctodo,
                    ret, rdir, answer, ncalls, instLoads >>

\* lines 272-305: the sweep under s.mu, and the return of nil
LoadSweeps(c) ==
    /\ cpc[c] = "sweep"
    /\ stores' = [stores EXCEPT ![cstore[c]].coupons = @ \cup SweepKeys(couponShards),
                                ![cstore[c]].state = "ready"]
    /\ lerr' = [lerr EXCEPT ![c] = "nil"]
    /\ cpc' = [cpc EXCEPT ![c] = "loaded"]
    /\ UNCHANGED << appVars, pipeVars, couponShards, onceVars, ckind, cdir, cstore, own, ctodo,
                    ret, rdir, answer, ncalls, instLoads >>

\* lines 45-49: the load has returned inside f; loadErr and loaded are set and
\* once.Do is over
OnceFinishes(c) ==
    /\ cpc[c] = "loaded"
    /\ ckind[c] = "instance"
    /\ loadErr' = lerr[c]
    /\ loaded' = IF lerr[c] = "nil" THEN TRUE ELSE loaded
    /\ once' = "done"
    /\ cpc' = [cpc EXCEPT ![c] = "ret"]
    /\ UNCHANGED << appVars, pipeVars, couponShards, instance, loadDir, stores, ckind, cdir,
                    cstore, own, ctodo, lerr, ret, rdir, answer, ncalls, instLoads >>

\* LoadAndFindValidCoupons returns to a caller that built its own store; the
\* locals of the call are gone
DirectReturns(c) ==
    /\ cpc[c] = "loaded"
    /\ ckind[c] = "direct"
    /\ cpc' = [cpc EXCEPT ![c] = "idle"]
    /\ cdir' = [cdir EXCEPT ![c] = ""]
    /\ cstore' = [cstore EXCEPT ![c] = 0]
    /\ lerr' = [lerr EXCEPT ![c] = "nil"]
    /\ UNCHANGED << appVars, pipeVars, couponShards, onceVars, stores, ckind, own, ctodo, ret, rdir,
                    answer, ncalls, instLoads >>

\* the accessor refuses a directory other than the one loaded
InstanceForDir(inst, err, ldir, dir) ==
    IF ldir # dir THEN [inst |-> 0, err |-> "DirectoryMismatch"]
                  ELSE [inst |-> inst, err |-> err]

\* lines 50-53: after a warning, if the directory differs from the loaded
\* one, the accessor returns instance, loadErr
InstanceResult(inst, err, ldir, dir) == [inst |-> inst, err |-> err]

InstanceReturns(c) ==
    /\ cpc[c] = "ret"
    /\ ret' = [ret EXCEPT ![c] = InstanceResult(instance, loadErr, loadDir, cdir[c])]
    /\ rdir' = [rdir EXCEPT ![c] = cdir[c]]
    /\ cpc' = [cpc EXCEPT ![c] = "idle"]
    /\ cdir' = [cdir EXCEPT ![c] = ""]
    /\ cstore' = [cstore EXCEPT ![c] = 0]
    /\ lerr' = [lerr EXCEPT ![c] = "nil"]
    /\ UNCHANGED << appVars, pipeVars, couponShards, onceVars, stores, ckind, own, ctodo, answer,
                    ncalls, instLoads >>

\* NewStore, lines 43-59 of store.go: the store it returns, 0 for nil, and
\* its error, from what the accessor returned
NewStore(couponStore, err) ==
    IF err # "nil"
      THEN [store |-> 0, err |-> "failed to initialize coupon store"]
      ELSE [store |-> couponStore, err |-> "nil"]

\* the codes the callers ask for
QueryCodes == {VALIDAAA, SHORT7A}

\* a lookup that takes the code out of the set
ConsumeOnLookup(s_coupons, code) == s_coupons \ {code}

\* s.coupons after GetCoupon: the method only reads, under s.mu.RLock()
AfterLookup(s_coupons, code) == s_coupons

\* a caller asks the instance it was given; the build's sweep holds s.mu
Query(c) ==
    /\ cpc[c] = "idle"
    /\ ncalls[c] < MaxCalls
    /\ ret[c].inst # 0
    /\ \A x \in Callers : cpc[x] = "sweep" => cstore[x] # ret[c].inst
    /\ \E code \in QueryCodes :
          /\ answer' = [answer EXCEPT ![c] =
                           [store |-> ret[c].inst, code |-> code,
                            result |-> GetCouponOf(stores[ret[c].inst].coupons, code)]]
          /\ stores' = [stores EXCEPT ![ret[c].inst].coupons = AfterLookup(@, code)]
    /\ ncalls' = [ncalls EXCEPT ![c] = @ + 1]
    /\ UNCHANGED << appVars, pipeVars, couponShards, onceVars, cpc, ckind, cdir, cstore, own,
                    ctodo, lerr, ret, rdir, instLoads >>

(***************************************************************************)
(* The specification of the callers.  The build that Spec follows step by  *)
(* step has not been started.                                              *)
(***************************************************************************)
InitCalls ==
    /\ dirExists = FALSE
    /\ numRegular = 0
    /\ fileLines = [i \in FileIdx |-> << >>]
    /\ fileRest = [i \in FileIdx |-> << >>]
    /\ fileFault = [i \in FileIdx |-> "none"]
    /\ pc = "begin"
    /\ errFinal = "nil"
    /\ coupons = {}
    /\ couponShards = [i \in {} |-> ZeroShard]
    /\ dataChan = << >>
    /\ dataClosed = FALSE
    /\ readerErrChan = << >>
    /\ errClosed = FALSE
    /\ rpc = [i \in FileIdx |-> "idle"]
    /\ closerPc = "idle"
    /\ wpc = [w \in Workers |-> "idle"]
    /\ localBatchData = [w \in Workers |-> EmptyMap]
    /\ itemsProcessed = [w \in Workers |-> 0]
    /\ flushTodo = [w \in Workers |-> {}]
    /\ flushFinal = [w \in Workers |-> FALSE]
    /\ flushKey = [w \in Workers |-> << >>]
    /\ flushOld = [w \in Workers |-> 0]
    /\ merged = EmptyMap
    /\ CallsInit
    /\ AppInit

\* the callers go through the accessor
NextCalls ==
    \/ \E c \in Callers : CallInstance(c)
    \/ \E c \in Callers : OnceRuns(c)
    \/ \E c \in Callers : OncePasses(c)
    \/ \E c \in Callers : LoadBegin(c)
    \/ \E c \in Callers : LoadMerges(c)
    \/ \E c \in Callers : LoadChecks(c)
    \/ \E c \in Callers : LoadSweeps(c)
    \/ \E c \in Callers : OnceFinishes(c)
    \/ \E c \in Callers : InstanceReturns(c)
    \/ \E c \in Callers : Query(c)

SpecCalls == InitCalls /\ [][NextCalls]_vars

\* the callers build stores of their own
NextBuilds ==
    \/ \E c \in Callers : CallDirect(c)
    \/ \E c \in Callers : LoadBegin(c)
    \/ \E c \in Callers : LoadMerges(c)
    \/ \E c \in Callers : LoadChecks(c)
    \/ \E c \in Callers : LoadSweeps(c)
    \/ \E c \in Callers : DirectReturns(c)

SpecBuilds == InitCalls /\ [][NextBuilds]_vars

(***************************************************************************)
(* The build under fair scheduling.  The contents of the three files are   *)
(* fixed before the build starts: fileRest holds the lines a scanner will  *)
(* yield and fileFault the fault the reader will meet, "scan" after the    *)
(* lines, the faults of OpenFaults before any.  A reader has no choice     *)
(* left: while the next line cannot be sent it waits.                      *)
(***************************************************************************)
\* a file with one line more than dataChan buffers
LongFile == [k \in 1 .. ChanCap + 1 |-> IF k = 2 THEN SHORT7A ELSE VALIDAAA]

\* the contents of the three files
LiveContents ==
    { << << >>, << >>, << >> >>,
      << << VALIDAAA >>, << VALIDAAA >>, << PADDED >> >>,
      << LongFile, << VALIDAAA >>, << >> >>,
      << LongFile, LongFile, << >> >> }

\* what a reader meets in its file
LiveFaults == {"none", "scan"} \cup OpenFaults

LiveDirs ==
    {[exists |-> TRUE, regular |-> NumFiles,
      files |-> [k \in 1 .. NumFiles |-> File(c[k], f[k])]] :
        c \in LiveContents, f \in [1 .. NumFiles -> LiveFaults]}

InitLive ==
    /\ \E d \in LiveDirs :
          /\ dirExists = d.exists
          /\ numRegular = d.regular
          /\ fileRest = [i \in FileIdx |-> d.files[i + 1].lines]
          /\ fileFault = [i \in FileIdx |-> d.files[i + 1].fault]
    /\ fileLines = [i \in FileIdx |-> << >>]
    /\ pc = "begin"
    /\ errFinal = "nil"
    /\ coupons = {}
    /\ couponShards = [i \in {} |-> ZeroShard]
    /\ dataChan = << >>
    /\ dataClosed = FALSE
    /\ readerErrChan = << >>
    /\ errClosed = FALSE
    /\ rpc = [i \in FileIdx |-> "idle"]
    /\ closerPc = "idle"
    /\ wpc = [w \in Workers |-> "idle"]
    /\ localBatchData = [w \in Workers |-> EmptyMap]
    /\ itemsProcessed = [w \in Workers |-> 0]
    /\ flushTodo = [w \in Workers |-> {}]
    /\ flushFinal = [w \in Workers |-> FALSE]
    /\ flushKey = [w \in Workers |-> << >>]
    /\ flushOld = [w \in Workers |-> 0]
    /\ merged = EmptyMap
    /\ CallsInit
    /\ AppInit

\* lines 210-226 on a file that cannot be opened or has no valid gzip header
LiveOpenFails(i) ==
    /\ rpc[i] = "open"
    /\ fileFault[i] \in OpenFaults
    /\ Len(readerErrChan) < NumFiles
    /\ readerErrChan' = ReportCritical(readerErrChan,
                                       [reader |-> i + 1, kind |-> fileFault[i]])
    /\ rpc' = [rpc EXCEPT ![i] = "done"]
    /\ UNCHANGED << fsVars, mainVars, dataChan, dataClosed, errClosed, closerPc,
                    workerVars, couponShards, merged >>
    /\ UNCHANGED << callVars, appVars >>

\* lines 232-235: the next line of the file is sent; the send blocks while the
\* channel's buffer is full
LiveSends(i) ==
    /\ Scanning(i)
    /\ fileFault[i] \notin OpenFaults
    /\ fileRest[i] # << >>
    /\ Len(dataChan) < ChanCap
    /\ rpc' = [rpc EXCEPT ![i] = "scan"]
    /\ fileLines' = [fileLines EXCEPT ![i] = Append(@, Head(fileRest[i]))]
    /\ fileRest' = [fileRest EXCEPT ![i] = Tail(@)]
    /\ dataChan' = Append(dataChan, [couponString |-> Head(fileRest[i]),
                                     fileBitmask |-> fileBitmaskOf(i)])
    /\ UNCHANGED << dirExists, numRegular, fileFault, mainVars, dataClosed,
                    readerErrChan, errClosed, closerPc, workerVars, couponShards, merged >>
    /\ UNCHANGED << callVars, appVars >>

\* the file is at its end and scanner.Err() is nil
LiveEOF(i) ==
    /\ Scanning(i)
    /\ fileFault[i] = "none"
    /\ fileRest[i] = << >>
    /\ rpc' = [rpc EXCEPT ![i] = "done"]
    /\ UNCHANGED << fsVars, mainVars, chanVars, closerPc, workerVars, couponShards, merged >>
    /\ UNCHANGED << callVars, appVars >>

\* lines 236-238: Scan returned false on an error, which is printed
LiveScanFails(i) ==
    /\ Scanning(i)
    /\ fileFault[i] = "scan"
    /\ fileRest[i] = << >>
    /\ readerErrChan' = ScanErrReport(readerErrChan, [reader |-> i + 1, kind |-> "scan"])
    /\ rpc' = [rpc EXCEPT ![i] = "done"]
    /\ UNCHANGED << fsVars, mainVars, dataChan, dataClosed, errClosed, closerPc,
                    workerVars, couponShards, merged >>
    /\ UNCHANGED << callVars, appVars >>

\* the goroutines of a build
MainSteps == Begin \/ StartPipeline \/ WaitWorkers \/ CheckErrors \/ Sweep

LiveReader(i) == LiveOpenFails(i) \/ LiveSends(i) \/ LiveEOF(i) \/ LiveScanFails(i)

CloserSteps == CloseDataChan \/ CloseErrChan

WorkerSteps(w) ==
    WorkerReceives(w) \/ WorkerChannelClosed(w) \/ FlushLocks(w) \/ FlushMerges(w)

NextLive ==
    \/ MainSteps
    \/ \E i \in FileIdx : LiveReader(i)
    \/ CloserSteps
    \/ \E w \in Workers : WorkerSteps(w)

\* the Go scheduler runs every goroutine that stays runnable
FairLive ==
    /\ WF_vars(MainSteps)
    /\ \A i \in FileIdx : WF_vars(LiveReader(i))
    /\ WF_vars(CloserSteps)
    /\ \A w \in Workers : WF_vars(WorkerSteps(w))

SpecLive == InitLive /\ [][NextLive]_vars /\ FairLive

(***************************************************************************)
(* A build in which a worker can panic.  workerSharded defers wg.Done()    *)
(* and nothing else: it has no recover, and the deferred recover of        *)
(* LoadAndFindValidCoupons (lines 152-163) belongs to the calling          *)
(* goroutine, so it does not see the panic of a goroutine started with     *)
(* go.  The panic unwinds the worker, runs wg.Done(), reaches the top of   *)
(* the goroutine and the Go runtime ends the process: no goroutine takes   *)
(* a further step and the call never returns.  A mutex the worker held is  *)
(* not released, Unlock at line 104 is not deferred.                       *)
(***************************************************************************)
Crashed == pc = "crashed"

WorkerPanics(w) ==
    /\ ~Crashed
    /\ wpc[w] \in {"recv", "flush", "merge"}
    /\ wpc' = [wpc EXCEPT ![w] = "panicked"]
    /\ pc' = "crashed"
    /\ UNCHANGED << fsVars, errFinal, coupons, chanVars, readerVars, localBatchData,
                    itemsProcessed, flushTodo, flushFinal, flushKey, flushOld,
                    couponShards, merged >>
    /\ UNCHANGED << callVars, appVars >>

NextPanic ==
    \/ ~Crashed /\ NextLive
    \/ \E w \in Workers : WorkerPanics(w)

SpecPanic == InitLive /\ [][NextPanic]_vars

(***************************************************************************)
(* findValidCoupons, the merge of three sorted files (src/unnamed/part_009 *)
(* lines 162-243).  The inputs are what extractAndSort leaves: lines that  *)
(* are trimmed and not empty, in the byte order of sort under LC_ALL=C,    *)
(* which is the order of Go's < on strings; a line can occur repeatedly.   *)
(***************************************************************************)
\* the longest sorted file
MaxSorted == 2

\* the codes of the sorted files: one is a prefix of another
MergeCodes == {<< 65 >>, << 65, 66 >>, << 66 >>}

\* Go's s < t on strings: lexicographic on bytes, a proper prefix is smaller
RECURSIVE StrLess(_, _)
StrLess(s, t) ==
    IF t = << >> THEN FALSE
    ELSE IF s = << >> THEN TRUE
    ELSE IF Head(s) # Head(t) THEN Head(s) < Head(t)
    ELSE StrLess(Tail(s), Tail(t))

\* what sort writes: the lines in non-decreasing order
IsSorted(lines) ==
    \A k \in 1 .. Len(lines) - 1 : ~StrLess(lines[k + 1], lines[k])

SortedFiles ==
    {lines \in UNION {[1 .. n -> MergeCodes] : n \in 0 .. MaxSorted} : IsSorted(lines)}

\* the state before the call of findValidCoupons
InitMerge ==
    /\ dirExists = FALSE
    /\ numRegular = 0
    /\ fileLines = [i \in FileIdx |-> << >>]
    /\ fileRest = [i \in FileIdx |-> << >>]
    /\ fileFault = [i \in FileIdx |-> "none"]
    /\ pc = "begin"
    /\ errFinal = "nil"
    /\ coupons = {}
    /\ couponShards = [i \in {} |-> ZeroShard]
    /\ dataChan = << >>
    /\ dataClosed = FALSE
    /\ readerErrChan = << >>
    /\ errClosed = FALSE
    /\ rpc = [i \in FileIdx |-> "idle"]
    /\ closerPc = "idle"
    /\ wpc = [w \in Workers |-> "idle"]
    /\ localBatchData = [w \in Workers |-> EmptyMap]
    /\ itemsProcessed = [w \in Workers |-> 0]
    /\ flushTodo = [w \in Workers |-> {}]
    /\ flushFinal = [w \in Workers |-> FALSE]
    /\ flushKey = [w \in Workers |-> << >>]
    /\ flushOld = [w \in Workers |-> 0]
    /\ merged = EmptyMap
    /\ CallsInit
    /\ sortedFile \in [FileIdx -> SortedFiles]
    /\ openFails \in 0 .. NumFiles
    /\ mpc = "setup"
    /\ scanned = [i \in FileIdx |-> 0]
    /\ currentCodes = [i \in FileIdx |-> << >>]
    /\ hasMore = [i \in FileIdx |-> TRUE]
    /\ validCoupons = << >>
    /\ mergeErr = "nil"
    /\ iterations = 0
    /\ StoreIdle

\* lines 179-196: the files are opened and the first line of each is scanned;
\* a file that cannot be opened ends the call
MergeSetup ==
    /\ mpc = "setup"
    /\ IF openFails < NumFiles
         THEN /\ mergeErr' = "OpenSorted"
              /\ mpc' = "returned"
              /\ UNCHANGED << scanned, currentCodes, hasMore >>
         ELSE /\ scanned' = [i \in FileIdx |-> IF sortedFile[i] # << >> THEN 1 ELSE 0]
              /\ currentCodes' = [i \in FileIdx |->
                                     IF sortedFile[i] # << >>
                                       THEN TrimSpace(sortedFile[i][1]) ELSE << >>]
              /\ hasMore' = [i \in FileIdx |-> sortedFile[i] # << >>]
              /\ mpc' = "loop"
              /\ UNCHANGED mergeErr
    /\ UNCHANGED << sortedFile, openFails, validCoupons, iterations >>
    /\ UNCHANGED << pipeVars, couponShards, callVars, storeVars, orderVars >>

\* lines 201-209: the smallest current code of the files that have lines, ""
\* when there is none
RECURSIVE MinCodeFrom(_, _, _, _)
MinCodeFrom(i, minCode, cur, more) ==
    IF i >= NumFiles THEN minCode
    ELSE MinCodeFrom(i + 1,
                     IF more[i] /\ (minCode = << >> \/ StrLess(cur[i], minCode))
                       THEN cur[i] ELSE minCode,
                     cur, more)

\* lines 215-221: the files whose current code is the smallest
Matching(minCode, cur, more) == {i \in FileIdx : more[i] /\ cur[i] = minCode}

\* a merge that takes a code found once
CountAtLeastOne(count) == count >= 1

\* line 224
CountValid(count) == count >= MinFileCount

\* lines 200-241: the loop condition holds and one iteration runs
MergeIteration ==
    /\ mpc = "loop"
    /\ \E i \in FileIdx : hasMore[i]
    /\ LET minCode == MinCodeFrom(0, << >>, currentCodes, hasMore)
           match == Matching(minCode, currentCodes, hasMore)
       IN  IF minCode = << >>
             \* lines 211-213: break
             THEN /\ mpc' = "returned"
                  /\ UNCHANGED << scanned, currentCodes, hasMore, validCoupons >>
             ELSE /\ validCoupons' = IF CountValid(Cardinality(match))
                                       THEN Append(validCoupons, minCode)
                                       ELSE validCoupons
                  /\ scanned' = [i \in FileIdx |->
                                    IF i \in match /\ scanned[i] < Len(sortedFile[i])
                                      THEN scanned[i] + 1 ELSE scanned[i]]
                  /\ currentCodes' = [i \in FileIdx |->
                                         IF i \in match /\ scanned[i] < Len(sortedFile[i])
                                           THEN TrimSpace(sortedFile[i][scanned[i] + 1])
                                           ELSE currentCodes[i]]
                  /\ hasMore' = [i \in FileIdx |->
                                    IF i \in match
                                      THEN scanned[i] < Len(sortedFile[i])
                                      ELSE hasMore[i]]
                  /\ UNCHANGED mpc
    /\ iterations' = iterations + 1
    /\ UNCHANGED << sortedFile, openFails, mergeErr >>
    /\ UNCHANGED << pipeVars, couponShards, callVars, storeVars, orderVars >>

\* lines 200 and 242: no file has lines, the slice is returned
MergeReturns ==
    /\ mpc = "loop"
    /\ \A i \in FileIdx : ~hasMore[i]
    /\ mpc' = "returned"
    /\ UNCHANGED << sortedFile, openFails, scanned, currentCodes, hasMore, validCoupons,
                    mergeErr, iterations >>
    /\ UNCHANGED << pipeVars, couponShards, callVars, storeVars, orderVars >>

NextMerge ==
    \/ MergeSetup
    \/ MergeIteration
    \/ MergeReturns

SpecMerge == InitMerge /\ [][NextMerge]_vars

(***************************************************************************)
(* The Store.  NewStore has returned a store: its products are those of    *)
(* the products file, its coupons the validator the accessor returned,     *)
(* its context a child of the caller's context made by                     *)
(* context.WithCancel.  Products and coupons do not change afterwards.     *)
(* The contexts are those of package context: cancelling the parent        *)
(* cancels the child before the parent's cancel function returns.          *)
(***************************************************************************)
\* the calls of Close that are followed
MaxCloses == 2

\* s.products: the price in cents per product ID
Catalog == [id \in {"prod-1", "prod-2"} |-> IF id = "prod-1" THEN 1000 ELSE 2000]

\* the product IDs callers ask for
ProductIDs == {"prod-1", "prod-2", "prod-9"}

\* s.coupons: the set of the validator
ValidatorCodes == {VALIDAAA}

\* a context that does not see the cancellation of its parent
CtxErrOwnOnly(parent, child) == IF child THEN "context canceled" ELSE "nil"

\* s.ctx.Err() for s.ctx, s.cancel from context.WithCancel(ctx)
CtxErr(parent, child) == IF parent \/ child THEN "context canceled" ELSE "nil"

\* ProductStore.GetProduct
ProductStoreGetProduct(ps, id) ==
    IF id \in DOMAIN ps
      THEN [product |-> id, err |-> "nil"]
      ELSE [product |-> "nil", err |-> "product not found"]

\* Store.GetProduct, given what s.ctx.Err() returned
StoreGetProduct(ctxErr, ps, id) ==
    IF ctxErr # "nil"
      THEN [product |-> "nil", err |-> "store is closed"]
      ELSE ProductStoreGetProduct(ps, id)

\* Store.GetAllProducts: nil, or the slice of all products, which is not nil
StoreGetAllProducts(ctxErr, ps) ==
    IF ctxErr # "nil"
      THEN [isNil |-> TRUE, products |-> {}]
      ELSE [isNil |-> FALSE, products |-> DOMAIN ps]

\* Store.ValidateCoupon
StoreValidateCoupon(ctxErr, validator, code) ==
    IF ctxErr # "nil" THEN FALSE ELSE GetCouponOf(validator, code)

\* the result of a method of the Store
StoreResult(op, arg, ctxErr) ==
    CASE op = "GetProduct" -> StoreGetProduct(ctxErr, Catalog, arg)
      [] op = "GetAllProducts" -> StoreGetAllProducts(ctxErr, Catalog)
      [] op = "ValidateCoupon" -> StoreValidateCoupon(ctxErr, ValidatorCodes, arg)

\* the calls callers make
StoreCalls ==
    {<< "GetProduct", id >> : id \in ProductIDs}
        \cup {<< "GetAllProducts", << >> >>}
        \cup {<< "ValidateCoupon", code >> : code \in QueryCodes}

\* Close: s.cancel() and return nil
StoreClose ==
    /\ closeCalls < MaxCloses
    /\ cancelCalled' = TRUE
    /\ closeCalls' = closeCalls + 1
    /\ closeRet' = "nil"
    /\ UNCHANGED << parentDone, scall, orderVars >>
    /\ UNCHANGED << pipeVars, couponShards, callVars, mergeVars >>

\* the owner of the parent context cancels it
ParentCancelled ==
    /\ ~parentDone
    /\ parentDone' = TRUE
    /\ UNCHANGED << cancelCalled, closeCalls, closeRet, scall, orderVars >>
    /\ UNCHANGED << pipeVars, couponShards, callVars, mergeVars >>

\* a caller enters a method of the Store: the method reads s.ctx.Err() and
\* returns at once when it is not nil
StoreMethodChecks(c) ==
    /\ scall[c].phase \in {"idle", "returned"}
    /\ \E call \in StoreCalls :
          LET ctxErr == CtxErr(parentDone, cancelCalled)
              this == [op |-> call[1], arg |-> call[2],
                       closedBefore |-> closeCalls > 0 \/ parentDone]
          IN  scall' = [scall EXCEPT ![c] =
                  IF ctxErr # "nil"
                    THEN [op |-> this.op, arg |-> this.arg, phase |-> "returned",
                          closedBefore |-> this.closedBefore,
                          result |-> StoreResult(this.op, this.arg, ctxErr)]
                    ELSE [op |-> this.op, arg |-> this.arg, phase |-> "checked",
                          closedBefore |-> this.closedBefore, result |-> "none"]]
    /\ UNCHANGED << parentDone, cancelCalled, closeCalls, closeRet, orderVars >>
    /\ UNCHANGED << pipeVars, couponShards, callVars, mergeVars >>

\* the method takes s.mu.RLock, reads and returns
StoreMethodReads(c) ==
    /\ scall[c].phase = "checked"
    /\ scall' = [scall EXCEPT ![c].phase = "returned",
                              ![c].result = StoreResult(scall[c].op, scall[c].arg, "nil")]
    /\ UNCHANGED << parentDone, cancelCalled, closeCalls, closeRet, orderVars >>
    /\ UNCHANGED << pipeVars, couponShards, callVars, mergeVars >>

NextStore ==
    \/ StoreClose
    \/ ParentCancelled
    \/ \E c \in Callers : StoreMethodChecks(c)
    \/ \E c \in Callers : StoreMethodReads(c)

SpecStore == InitCalls /\ [][NextStore]_vars

(***************************************************************************)
(* OrderServiceImpl.PlaceOrder (order_service.go lines 28-66) on the       *)
(* Store above.  Amounts are in cents; the prices of the catalog are such  *)
(* that the discount of 10% is a whole number of cents.                    *)
(***************************************************************************)
\* the longest item list of a request
MaxItems == 2

\* the items a request can hold
OrderItems ==
    {[ProductID |-> "prod-1", Quantity |-> 2],
     [ProductID |-> "prod-2", Quantity |-> 1],
     [ProductID |-> "prod-9", Quantity |-> 1]}

\* the requests: an item list, possibly empty, and a coupon code, "" for none
OrderRequests ==
    [Items : UNION {[1 .. n -> OrderItems] : n \in 0 .. MaxItems},
     CouponCode : {<< >>, VALIDAAA, SHORT7A}]

\* lines 28-31: PlaceOrder is called; it looks at the items only in its loops
PlaceOrderCalled ==
    /\ opc = "idle"
    /\ \E req \in OrderRequests : oreq' = req
    /\ opc' = "items"
    /\ UNCHANGED << oret, oproducts, totalAmount, storeVars >>
    /\ UNCHANGED << pipeVars, couponShards, callVars, mergeVars >>

\* lines 34-41: one iteration of the loop over req.Items
PlaceOrderItem ==
    /\ opc = "items"
    /\ Len(oproducts) < Len(oreq.Items)
    /\ LET item == oreq.Items[Len(oproducts) + 1]
           got == StoreGetProduct(CtxErr(parentDone, cancelCalled), Catalog, item.ProductID)
       IN  IF got.err # "nil"
             THEN /\ oret' = [order |-> "nil", err |-> "INVALID_PRODUCT"]
                  /\ opc' = "returned"
                  /\ UNCHANGED << oproducts, totalAmount >>
             ELSE /\ oproducts' = Append(oproducts, got.product)
                  /\ totalAmount' = totalAmount + Catalog[got.product] * item.Quantity
                  /\ UNCHANGED << opc, oret >>
    /\ UNCHANGED << oreq, storeVars >>
    /\ UNCHANGED << pipeVars, couponShards, callVars, mergeVars >>

\* line 50: totalAmount * 0.90
Discounted(amount) == (amount * 90) \div 100

\* lines 44-65: the coupon, if any, is validated; the order is created from
\* the items with the prices of their products, and returned
PlaceOrderFinishes ==
    /\ opc = "items"
    /\ Len(oproducts) = Len(oreq.Items)
    /\ LET valid == StoreValidateCoupon(CtxErr(parentDone, cancelCalled), ValidatorCodes,
                                        oreq.CouponCode)
           total == IF oreq.CouponCode # << >> THEN Discounted(totalAmount) ELSE totalAmount
           orderItems == [k \in 1 .. Len(oreq.Items) |->
                             [ProductID |-> oreq.Items[k].ProductID,
                              Quantity |-> oreq.Items[k].Quantity,
                              Price |-> Catalog[oproducts[k]]]]
       IN  IF oreq.CouponCode # << >> /\ ~valid
             THEN /\ oret' = [order |-> "nil", err |-> "INVALID_COUPON"]
                  /\ UNCHANGED totalAmount
             ELSE /\ totalAmount' = total
                  /\ oret' = [order |-> [Items |-> orderItems, Products |-> oproducts,
                                         TotalAmount |-> total,
                                         CouponCode |-> oreq.CouponCode],
                              err |-> "nil"]
    /\ opc' = "returned"
    /\ UNCHANGED << oreq, oproducts, storeVars >>
    /\ UNCHANGED << pipeVars, couponShards, callVars, mergeVars >>

\* the handler is ready for the next request
PlaceOrderDone ==
    /\ opc = "returned"
    /\ opc' = "idle"
    /\ oreq' = [Items |-> << >>, CouponCode |-> << >>]
    /\ oproducts' = << >>
    /\ totalAmount' = 0
    /\ oret' = [order |-> "nil", err |-> "nil"]
    /\ UNCHANGED storeVars
    /\ UNCHANGED << pipeVars, couponShards, callVars, mergeVars >>

NextOrder ==
    \/ PlaceOrderCalled
    \/ PlaceOrderItem
    \/ PlaceOrderFinishes
    \/ PlaceOrderDone
    \/ StoreClose

SpecOrder == InitCalls /\ [][NextOrder]_vars

(***************************************************************************)
(* Notions the claims are stated in.                                       *)
(***************************************************************************)
Range(seq) == {seq[k] : k \in 1 .. Len(seq)}

\* LoadAndFindValidCoupons has returned nil
Succeeded == pc = "done" /\ errFinal = "nil"

\* the files that hold the string as a line, byte for byte
FilesWithLine(str) == {i \in FileIdx : str \in Range(AllLines(i))}

\* the files that hold the code, possibly between white space
FilesWithCode(code) == {i \in FileIdx : \E l \in Range(AllLines(i)) : TrimSpace(l) = code}

\* the specification's validity of a string: its trimmed form has 8 to 10
\* bytes and occurs in at least two of the three files
ValidCode(str) ==
    LET code == TrimSpace(str)
    IN  /\ Len(code) \in 8 .. 10
        /\ Cardinality(FilesWithCode(code)) >= 2

\* the bits of a set of files
RECURSIVE MaskOf(_)
MaskOf(S) ==
    IF S = {} THEN 0
    ELSE LET i == CHOOSE x \in S : TRUE IN ShiftLeft1(i) + MaskOf(S \ {i})

\* bit i of mask m is set
HasBit(m, i) == (m \div ShiftLeft1(i)) % 2 = 1

(***************************************************************************)
(* C1: after a successful build, GetCoupon(c) is true exactly for the      *)
(* strings c whose trimmed form has length 8 to 10 and occurs in at least  *)
(* two of the three files.                                                 *)
(***************************************************************************)
C1_ValidIffInTwoFiles ==
    Succeeded => \A c \in Keys : GetCoupon(c) = ValidCode(c)

(***************************************************************************)
(* C2: the final membership set is a function of the lines of the files    *)
(* alone: whatever the interleaving of sends, receives and flushes and     *)
(* whichever worker got which record, a successful build ends with the     *)
(* set of the lines of length 8 to 10 that were read from two files.       *)
(***************************************************************************)
C2_OrderIndependent ==
    Succeeded =>
        coupons = {c \in UNION {Range(fileLines[i]) : i \in FileIdx} :
                      /\ Len(c) \in 8 .. 10
                      /\ Cardinality({i \in FileIdx : c \in Range(fileLines[i])}) >= 2}

\* a successful build in which each of the two files' records for one code
\* went through a different worker's final flush
C2_Witness ==
    /\ Succeeded
    /\ \E c \in coupons : \E w1, w2 \in Workers :
          /\ w1 # w2
          /\ c \in DOMAIN localBatchData[w1]
          /\ c \in DOMAIN localBatchData[w2]
          /\ localBatchData[w1][c] # localBatchData[w2][c]

(***************************************************************************)
(* C3: when the sweep starts, the mask of every key of the table has       *)
(* exactly the bits of the files in which that string occurs as a line,    *)
(* so its popcount is the number of those files.                           *)
(***************************************************************************)
C3_MaskIsFilesOfCode ==
    pc = "sweep" =>
        \A c \in TableKeys(couponShards) :
            /\ TableMask(couponShards, c) = MaskOf(FilesWithLine(c))
            /\ OnesCount32(TableMask(couponShards, c)) = Cardinality(FilesWithLine(c))

(***************************************************************************)
(* C4: no merge is lost: the table's entry of every key is the OR of all   *)
(* masks the workers have merged for it, and a worker between its read and *)
(* its write of an entry holds the mutex of the entry's shard.             *)
(***************************************************************************)
C4_MergeThreadSafe ==
    /\ \A c \in Keys : TableMask(couponShards, c) = MapGet(merged, c)
    /\ \A w \in Workers :
          wpc[w] = "merge" =>
              /\ ShardIndexOf[flushKey[w]] \in DOMAIN couponShards
              /\ couponShards[ShardIndexOf[flushKey[w]]].mu = w

\* a worker is between read and write of a key that another worker, holding
\* a different mask for it, still has to flush
C4_Witness ==
    \E w1, w2 \in Workers :
        /\ w1 # w2
        /\ wpc[w1] = "merge"
        /\ wpc[w2] = "flush"
        /\ flushKey[w1] \in flushTodo[w2]
        /\ localBatchData[w1][flushKey[w1]] # localBatchData[w2][flushKey[w1]]

(***************************************************************************)
(* C5: when the sweep starts, every reader has returned, dataChan is       *)
(* closed and empty, every worker has exited and every entry of every      *)
(* worker's batch is in the table.                                         *)
(***************************************************************************)
C5_SweepAfterAllMerges ==
    pc = "sweep" =>
        /\ \A i \in FileIdx : rpc[i] = "done"
        /\ dataClosed
        /\ dataChan = << >>
        /\ \A w \in Workers :
              /\ wpc[w] = "done"
              /\ flushTodo[w] = {}
              /\ \A c \in DOMAIN localBatchData[w] :
                    BitOr(TableMask(couponShards, c), localBatchData[w][c])
                        = TableMask(couponShards, c)

\* the sweep is about to start on a table that workers have merged into
C5_Witness ==
    /\ pc = "sweep"
    /\ TableKeys(couponShards) # {}
    /\ \E w \in Workers : DOMAIN localBatchData[w] # {}

(***************************************************************************)
(* C6: after a successful build the validated set holds no string whose    *)
(* trimmed length is outside 8 .. 10, however many files hold it.  (That   *)
(* the codes of trimmed length 8 and 10 in two files are in the set is     *)
(* part of C1.)                                                            *)
(***************************************************************************)
C6_LengthGate ==
    Succeeded => \A c \in coupons : Len(TrimSpace(c)) \in 8 .. 10

(***************************************************************************)
(* C7: every line is trimmed before the length check and the aggregation:  *)
(* when the sweep starts, a line read from file i whose trimmed form has   *)
(* 8 to 10 bytes has set bit i of the entry of the trimmed form, and      *)
(* every key of the table is a trimmed string, so none is blank.           *)
(***************************************************************************)
C7_TrimBeforeAggregation ==
    pc = "sweep" =>
        /\ \A i \in FileIdx : \A l \in Range(fileLines[i]) :
              Len(TrimSpace(l)) \in 8 .. 10
                  => HasBit(TableMask(couponShards, TrimSpace(l)), i)
        /\ \A c \in TableKeys(couponShards) : TrimSpace(c) = c /\ c # << >>

C9_ScanErrorIsFatal ==
    (pc = "done" /\ \E i \in FileIdx : fileFault[i] = "scan") => errFinal # "nil"

C11_FailedBuildLeavesNothing ==
    \A s \in 1 .. Len(stores) :
        stores[s].state = "failed" =>
            \A code \in Keys : ~GetCouponOf(stores[s].coupons, code)

\* a build has failed on a reader's error after its workers had merged
\* VALIDAAA from two files
C11_Witness ==
    \E s \in 1 .. Len(stores) :
        /\ stores[s].state = "failed"
        /\ stores[s].dir = "E"
        /\ OnesCount32(TableMask(couponShards, VALIDAAA)) >= 2

(***************************************************************************)
(* C12: once the load of the singleton has failed, the load is never run   *)
(* again, the instance never becomes ready, every call of the accessor     *)
(* returns the error and no instance, and NewStore returns no store.       *)
(***************************************************************************)
C12_FailedIsTerminal ==
    (once = "done" /\ loadErr # "nil") =>
        /\ instLoads = 1
        /\ stores[instance].state = "failed"
        /\ \A c \in Callers :
              rdir[c] # "" =>
                  /\ ret[c].err = loadErr
                  /\ ret[c].inst = 0
                  /\ NewStore(ret[c].inst, ret[c].err).store = 0

(***************************************************************************)
(* C13: no caller gets past once.Do, is handed the instance or has a       *)
(* GetCoupon answered while the load of the instance is in progress.       *)
(***************************************************************************)
C13_NoInstanceWhileBuilding ==
    /\ \A c \in Callers :
          cpc[c] = "ret" =>
              /\ once = "done"
              /\ stores[instance].state \in {"ready", "failed"}
    /\ \A c \in Callers :
          ret[c].inst # 0 => stores[ret[c].inst].state \in {"ready", "failed"}
    /\ \A c \in Callers :
          answer[c].store # 0 => stores[answer[c].store].state \in {"ready", "failed"}

\* a caller is inside once.Do while another caller's load is about to sweep
C13_Witness ==
    \E c1, c2 \in Callers :
        /\ cpc[c1] = "once"
        /\ cpc[c2] = "sweep"
        /\ TableKeys(couponShards) # {}

(***************************************************************************)
(* C14: however the callers of the accessor interleave, the load runs      *)
(* once, one store is allocated, and every caller is returned that store   *)
(* and the error of that load.                                             *)
(***************************************************************************)
C14_LoadsOnce ==
    /\ instLoads <= 1
    /\ Len(stores) <= 1
    /\ \A c \in Callers :
          rdir[c] # "" =>
              /\ instLoads = 1
              /\ ret[c].inst = 1
              /\ ret[c].inst = instance
              /\ ret[c].err = loadErr
    /\ \A c1, c2 \in Callers : (rdir[c1] # "" /\ rdir[c2] # "") => ret[c1] = ret[c2]

\* two callers, each in its first call, are past once.Do at the same time
C14_Witness ==
    \E c1, c2 \in Callers :
        /\ c1 # c2
        /\ cpc[c1] = "ret" /\ ncalls[c1] = 1
        /\ cpc[c2] = "ret" /\ ncalls[c2] = 1

\* the specification's valid codes of a directory: the trimmed lines of 8 to
\* 10 bytes that occur in at least two of its files
DirFilesWithCode(d, code) ==
    {k \in 1 .. NumFiles : \E l \in Range(d.files[k].lines) : TrimSpace(l) = code}

DirValidCodes(d) ==
    {code \in {TrimSpace(l) : l \in UNION {Range(d.files[k].lines) : k \in 1 .. NumFiles}} :
        /\ Len(code) \in 8 .. 10
        /\ Cardinality(DirFilesWithCode(d, code)) >= 2}

(***************************************************************************)
(* C15: two builds for different directories, each on its own store and    *)
(* neither overlapping another build, leave each store with exactly the    *)
(* valid codes of its own directory.                                       *)
(***************************************************************************)
C15_CrossRunIsolation ==
    \A s, t \in 1 .. Len(stores) :
        ( /\ s # t
          /\ stores[s].state = "ready" /\ stores[s].alone
          /\ stores[t].state = "ready" /\ stores[t].alone
          /\ stores[s].dir # stores[t].dir )
        => /\ stores[s].coupons = DirValidCodes(Directory[stores[s].dir])
           /\ stores[t].coupons = DirValidCodes(Directory[stores[t].dir])

(***************************************************************************)
(* C16: two builds that overlap, for different directories and each on its *)
(* own store, both end with exactly the valid codes of their own           *)
(* directory.                                                              *)
(***************************************************************************)
C16_ConcurrentBuildsIndependent ==
    \A s, t \in 1 .. Len(stores) :
        ( /\ s # t
          /\ stores[s].state = "ready" /\ ~stores[s].alone
          /\ stores[t].state = "ready" /\ ~stores[t].alone
          /\ stores[s].dir # stores[t].dir )
        => /\ stores[s].coupons = DirValidCodes(Directory[stores[s].dir])
           /\ stores[t].coupons = DirValidCodes(Directory[stores[t].dir])

\* the set a build of the directory fills when it runs alone: the keys of the
\* workers' batches that carry the bits of two files
BuiltSet(d) ==
    LET batch == BatchOfFiles(EmptyMap, d.files, 0)
    IN  {couponStr \in DOMAIN batch : OnesCount32(batch[couponStr]) >= MinFileCount}

C19_GetCouponPure ==
    /\ \A s \in 1 .. Len(stores) :
          stores[s].state = "ready" => stores[s].coupons = BuiltSet(Directory[stores[s].dir])
    /\ \A c \in Callers :
          (answer[c].store # 0 /\ stores[answer[c].store].state = "ready") =>
              answer[c].result = (answer[c].code \in stores[answer[c].store].coupons)
    /\ \A c1, c2 \in Callers :
          (answer[c1].store = answer[c2].store /\ answer[c1].code = answer[c2].code)
              => answer[c1].result = answer[c2].result

\* two callers have asked the same ready instance for a code it holds
C19_Witness ==
    \E c1, c2 \in Callers :
        /\ c1 # c2
        /\ answer[c1].store # 0
        /\ answer[c1].store = answer[c2].store
        /\ stores[answer[c1].store].state = "ready"
        /\ answer[c1].code = VALIDAAA /\ answer[c1].result
        /\ answer[c2].code = VALIDAAA /\ answer[c2].result

\* the file has no bytes: its scanner yields no line and meets no error, or
\* its name ends in .gz and gzip.NewReader finds no header
EmptyFile(i) ==
    /\ fileLines[i] = << >>
    /\ fileRest[i] = << >>
    /\ fileFault[i] \in {"none", "gzipEOF"}

(***************************************************************************)
(* C20: an empty file is not an error: once its reader has completed, the  *)
(* reader has reported no error, no record, batch or table entry carries   *)
(* the file's bit, and the build returns nil unless the reader of another  *)
(* file could not open its file or was given an invalid gzip header.       *)
(***************************************************************************)
C20_EmptyFileIsNoError ==
    \A i \in FileIdx :
        (rpc[i] = "done" /\ EmptyFile(i)) =>
            /\ \A k \in 1 .. Len(readerErrChan) : readerErrChan[k].reader # i + 1
            /\ \A k \in 1 .. Len(dataChan) : ~HasBit(dataChan[k].fileBitmask, i)
            /\ \A w \in Workers : \A c \in DOMAIN localBatchData[w] :
                  ~HasBit(localBatchData[w][c], i)
            /\ \A c \in TableKeys(couponShards) : ~HasBit(TableMask(couponShards, c), i)
            /\ (pc = "done" /\ \A j \in FileIdx : fileFault[j] \notin {"open", "gzip"})
                  => errFinal = "nil"

(***************************************************************************)
(* C18: under fair scheduling the build terminates, whatever the three     *)
(* files hold and whichever readers fail: LoadAndFindValidCoupons returns, *)
(* and every reader, the closing goroutine and every worker have ended.    *)
(***************************************************************************)
C18_BuildTerminates ==
    <>( /\ pc = "done"
        /\ \A i \in FileIdx : rpc[i] = "done"
        /\ closerPc = "done"
        /\ \A w \in Workers : wpc[w] = "done" )

\* the build has returned after two files longer than the buffer of dataChan
\* were read to their ends
C18_Witness ==
    /\ pc = "done"
    /\ errFinal = "nil"
    /\ \E i, j \in FileIdx :
          /\ i # j
          /\ Len(fileLines[i]) > ChanCap /\ fileRest[i] = << >>
          /\ Len(fileLines[j]) > ChanCap /\ fileRest[j] = << >>

\* FNV-1a modulo numShards of every string that can become a key
FnvShard == [c \in Keys |-> getShardIndex(c)]

(***************************************************************************)
(* C23: in every state of a build a key of the table lies in the shard     *)
(* whose index is getShardIndex of the key and in no other shard, and a    *)
(* worker holds the mutex of a shard only between the lock and the write   *)
(* of one key: the mutex of the shard of that key, and no other.           *)
(***************************************************************************)
C23_ShardRouting ==
    /\ \A i \in DOMAIN couponShards : \A c \in DOMAIN couponShards[i].m :
          /\ i = FnvShard[c]
          /\ \A j \in DOMAIN couponShards : c \in DOMAIN couponShards[j].m => j = i
    /\ \A w \in Workers :
          {i \in DOMAIN couponShards : couponShards[i].mu = w} =
              IF wpc[w] = "merge" THEN {FnvShard[flushKey[w]]} ELSE {}

\* one shard holds a key and a worker holds the mutex of another shard, whose
\* index is not 0
C23_Witness ==
    /\ \E i, j \in DOMAIN couponShards :
          /\ i # j
          /\ couponShards[j].m # EmptyMap
          /\ couponShards[i].mu # Unlocked
    /\ \E w \in Workers : wpc[w] = "merge" /\ FnvShard[flushKey[w]] # 0

\* the errors of reader i + 1 that lie in the buffer of readerErrChan
ReportsOf(i) == {k \in 1 .. Len(readerErrChan) : readerErrChan[k].reader = i + 1}

(***************************************************************************)
(* C24: a reader that has met a critical error (its file cannot be opened, *)
(* the gzip header is invalid, or the scan fails in mid-stream) has put    *)
(* one error on readerErrChan, which lies there until the calling          *)
(* goroutine receives from the channel, and never two; a reader that       *)
(* failed before its scan loop has enqueued no record; and the buffer of   *)
(* readerErrChan has room as long as a reader has not returned.            *)
(***************************************************************************)
C24_CriticalErrorReportedOnce ==
    /\ \A i \in FileIdx :
          (rpc[i] = "done" /\ fileFault[i] \in OpenFaults \cup {"scan"}) =>
              /\ Cardinality(ReportsOf(i)) <= 1
              /\ pc \in {"waitWorkers", "checkErrors"} => Cardinality(ReportsOf(i)) = 1
              /\ fileFault[i] \in OpenFaults =>
                    /\ fileLines[i] = << >>
                    /\ \A k \in 1 .. Len(dataChan) : ~HasBit(dataChan[k].fileBitmask, i)
    /\ (\E i \in FileIdx : rpc[i] \in {"open", "scan"}) => Len(readerErrChan) < NumFiles

(***************************************************************************)
(* C25: once a reader has reported a critical error the remaining stages   *)
(* are stopped, that is, while an error lies on readerErrChan no reader    *)
(* enqueues a further record; and when the call returns the error of a     *)
(* reader, it has come from the channel and the channels are drained.      *)
(***************************************************************************)
C25_ErrorStopsThePipeline ==
    /\ []((pc = "done" /\ errFinal = "ReaderCritical") =>
             (readerErrChan = << >> /\ dataChan = << >>))
    /\ [][readerErrChan # << >> =>
             /\ \A i \in FileIdx : fileLines'[i] = fileLines[i]
             /\ Len(dataChan') <= Len(dataChan)]_vars

(***************************************************************************)
(* C26: when a worker has panicked the process goes on, the worker holds   *)
(* no shard mutex, and the call, once it has returned, has returned an     *)
(* error.                                                                  *)
(***************************************************************************)
C26_WorkerPanicIsReported ==
    \A w \in Workers :
        wpc[w] = "panicked" =>
            /\ ~Crashed
            /\ \A i \in DOMAIN couponShards : couponShards[i].mu # w
            /\ pc = "done" => errFinal # "nil"

(***************************************************************************)
(* C27: after a successful build GetCoupon(q) is true exactly when the     *)
(* trimmed form of q has 8 to 10 bytes and is in the set of the store.     *)
(* It is stated for builds from files whose lines carry no white space, so *)
(* that what ingestion does with white space plays no part.                *)
(***************************************************************************)
C27_QueryIsTrimmed ==
    (Succeeded /\ \A i \in FileIdx : \A l \in Range(AllLines(i)) : TrimSpace(l) = l) =>
        \A q \in Lines :
            GetCoupon(q) = (Len(TrimSpace(q)) \in 8 .. 10 /\ TrimSpace(q) \in coupons)

(***************************************************************************)
(* C28: the flush protocol of a worker.  Its batch holds at most as many   *)
(* keys as records were received since the last flush, and that count      *)
(* never exceeds the flush trigger; a worker that receives has a count     *)
(* below the trigger, and after a flush at the trigger it starts from an   *)
(* empty batch and the count 0; a worker that has ended has no key left to *)
(* flush, and the table holds every bit of the batch it ended with.        *)
(***************************************************************************)
C28_FlushProtocol ==
    \A w \in Workers :
        /\ Cardinality(DOMAIN localBatchData[w]) <= itemsProcessed[w]
        /\ itemsProcessed[w] <= FlushTrigger
        /\ wpc[w] = "recv" => itemsProcessed[w] < FlushTrigger
        /\ (itemsProcessed[w] = FlushTrigger /\ wpc[w] # "done") =>
              (wpc[w] \in {"flush", "merge"} /\ ~flushFinal[w])
        /\ itemsProcessed[w] = 0 => localBatchData[w] = EmptyMap
        /\ wpc[w] = "done" =>
              /\ flushTodo[w] = {}
              /\ \A c \in DOMAIN localBatchData[w] :
                    BitOr(TableMask(couponShards, c), localBatchData[w][c])
                        = TableMask(couponShards, c)

\* one worker is flushing at the trigger; the other has ended after the flush
\* of a batch it held when the channel was closed
C28_Witness ==
    \E w1, w2 \in Workers :
        /\ wpc[w1] = "done" /\ flushFinal[w1] /\ localBatchData[w1] # EmptyMap
        /\ wpc[w2] = "merge" /\ ~flushFinal[w2] /\ itemsProcessed[w2] = FlushTrigger

(***************************************************************************)
(* C30: dataChan is closed by the one close statement of the closing       *)
(* goroutine, which that goroutine passes once, and only when every reader *)
(* has returned; so no reader is in its scan loop while the channel is     *)
(* closed, and a worker that has left its receive loop has left it with    *)
(* the channel closed and empty: every record a reader enqueued has been   *)
(* received.                                                               *)
(***************************************************************************)
C30_CloseProtocol ==
    /\ dataClosed <=> closerPc \in {"closeErr", "done"}
    /\ dataClosed => \A i \in FileIdx : rpc[i] = "done"
    /\ \A w \in Workers :
          (wpc[w] = "done" \/ flushFinal[w]) =>
              /\ dataClosed
              /\ dataChan = << >>
              /\ \A i \in FileIdx : rpc[i] = "done"

\* the channel was closed after one reader failed and another sent a record,
\* and a worker has left its receive loop
C30_Witness ==
    /\ dataClosed
    /\ \E i \in FileIdx : fileFault[i] \in OpenFaults
    /\ \E i \in FileIdx : fileLines[i] # << >>
    /\ \E w \in Workers : wpc[w] = "done" /\ localBatchData[w] # EmptyMap

\* the inputs of findValidCoupons that hold the code
SortedWith(code) == {i \in FileIdx : code \in Range(sortedFile[i])}

(***************************************************************************)
(* C29: when findValidCoupons has returned its slice, the codes of the     *)
(* slice are exactly the codes that occur in at least two of the three     *)
(* sorted inputs, however often a code occurs inside one input; every      *)
(* input has been read to its end, and the loop has run at most once per   *)
(* line.                                                                   *)
(***************************************************************************)
C29_MergeFindsCodesInTwoFiles ==
    (mpc = "returned" /\ mergeErr = "nil") =>
        /\ Range(validCoupons) = {c \in MergeCodes : Cardinality(SortedWith(c)) >= 2}
        /\ \A i \in FileIdx : scanned[i] = Len(sortedFile[i]) /\ ~hasMore[i]
        /\ iterations <= Len(sortedFile[0]) + Len(sortedFile[1]) + Len(sortedFile[2])

\* the merge has returned one code: it is in two inputs, while another code
\* is twice in one input and in no other
C29_Witness ==
    /\ mpc = "returned"
    /\ mergeErr = "nil"
    /\ Len(validCoupons) = 1
    /\ \E c \in MergeCodes :
          /\ Cardinality(SortedWith(c)) = 1
          /\ \E i \in FileIdx : sortedFile[i] = << c, c >>

\* a method of the Store has returned the value it returns on a closed Store
ClosedResult(call) ==
    CASE call.op = "GetProduct" -> call.result.err # "nil" /\ call.result.product = "nil"
      [] call.op = "GetAllProducts" -> call.result.isNil
      [] call.op = "ValidateCoupon" -> call.result = FALSE

(***************************************************************************)
(* C21: a call of GetProduct, GetAllProducts or ValidateCoupon that was    *)
(* made after Close was called or after the parent context was cancelled   *)
(* returns an error, nil and false, whatever was called in between, and   *)
(* has returned so before taking the lock; and every call of Close has     *)
(* returned nil.                                                           *)
(***************************************************************************)
C21_ClosedStoreStaysClosed ==
    /\ \A c \in Callers :
          (scall[c].phase = "returned" /\ scall[c].closedBefore) => ClosedResult(scall[c])
    /\ closeCalls > 0 => closeRet = "nil"
    /\ \A c \in Callers : scall[c].closedBefore => scall[c].phase # "checked"

\* the parent context was cancelled, Close was then called twice, one caller
\* was given true for a code before and another is given false for it now
C21_Witness ==
    /\ parentDone
    /\ closeCalls = MaxCloses
    /\ \E c1, c2 \in Callers :
          /\ scall[c1].op = "ValidateCoupon" /\ scall[c1].arg = VALIDAAA
          /\ scall[c1].phase = "returned" /\ ~scall[c1].closedBefore
          /\ scall[c1].result = TRUE
          /\ scall[c2].op = "ValidateCoupon" /\ scall[c2].arg = VALIDAAA
          /\ scall[c2].phase = "returned" /\ scall[c2].closedBefore
          /\ scall[c2].result = FALSE

(***************************************************************************)
(* C22: PlaceOrder on a request whose item list is empty returns an error  *)
(* and no order.                                                           *)
(***************************************************************************)
C22_EmptyOrderIsRejected ==
    (opc = "returned" /\ Len(oreq.Items) = 0) =>
        (oret.err # "nil" /\ oret.order = "nil")

====
